---- MODULE Spec2Model ----
(***************************************************************************)
(* The scan timeline controller of src/components/FaceScanner.tsx: the     *)
(* React component state, the refs, the camera requests in flight, the     *)
(* video element and the browser timers the component arms.                *)
(*                                                                         *)
(* Time is kept as the remaining milliseconds of every armed timer: the    *)
(* step Elapse lets the time to the next expiry pass and runs the callback *)
(* of one timer that is due.  User and device events (start, reset, camera *)
(* grant or denial, loadedmetadata, playback start) happen between         *)
(* expiries.  A state change and the effect cleanup and effect run that    *)
(* React performs for it are one step (Commit).                            *)
(***************************************************************************)
EXTENDS Integers, FiniteSets, Sequences, TLC

\* ---------------------------------------------------------------- bounds
\* number of start() invocations, i.e. of getUserMedia requests
MaxRequests == 2
\* number of start() invocations where resets only interrupt the camera
\* acquisition (RetrySpec)
MaxRetryRequests == 3
\* poll retries counted per detection cycle (further retries are not counted)
MaxRetries == 2
\* length of the audio clock's run, in tenths of a second (SoundSpec)
MaxAudioTime == 16

\* ------------------------------------------------------ program constants
PollRetryMs          == 500
DetectionDelayMs     == 10000
LockDelayMs          == 1200
CapturedDelayMs      == 1000
TextIntervalMs       == 600
ConfidenceIntervalMs == 80
ScanDurationMs       == 8000
ConfidenceCeiling    == 99
ConfidenceFinal      == 100
NumScanningTexts     == 13
EkycTagMs            == 1200
WorldCheckTagMs      == 4200
NameRevealMs         == 5500
PepTagMs             == 8100
RiskTextMs           == 10600
ShowPopupMs          == 12600
HidePopupMs          == 23600
FinalizeMs           == 26000
FinalizingDelayMs    == 4000
CountdownStart       == 5
CountdownTickMs      == 1000
OnboardedDelayMs     == 3000
TypingIntervalMs     == 15
FsaTextLength        == 155

\* the constants of the auto-reset variant (src/unnamed/part_003) that differ
AutoDetectionDelayMs == 2500
AutoLockDelayMs      == 1000
AutoTextIntervalMs   == 800
AutoScanDurationMs   == 4000
AutoNumScanningTexts == 5
AutoScanPassedMs     == 10000
AutoWelcomeMs        == 10000
\* the scan loop; times in tenths of a second, gains in thousandths
FadeInTenths         == 10
FadeInLevel          == 150
FadeOutTenths        == 5
AudioVolume          == 600

\* ScannerStatus
Statuses ==
  {"IDLE", "INITIALIZING", "DETECTING", "CAPTURED", "SCANNING", "SCAN_PASSED",
   "FINALIZING", "COUNTDOWN", "ONBOARDED", "WELCOME", "SUCCESS", "ERROR"}

\* frames a granted camera may deliver: videoWidth, videoHeight and the
\* position <<column, row>> of one pixel of the picture that is told apart
\* from the others
FrameSizes == {<<640, 480, <<0, 0>>>>}

Null == "null"

\* the timers that clearSoundTimeouts cancels (soundTimeouts.current)
SoundTimers == {"ekycTag", "worldCheckTag", "nameReveal", "pepTag", "riskText"}

\* setInterval timers: name -> period
IntervalPeriod(n) ==
  CASE n = "textInterval"       -> TextIntervalMs
    [] n = "confidenceInterval" -> ConfidenceIntervalMs
    [] n = "typingInterval"     -> TypingIntervalMs
    [] OTHER                    -> 0

VARIABLES
  status, snapshot, errorMessage, scanningMessage, detectionBox, countdown,
  showFsaPopup, displayedFsaText, isTyping, matchConfidence,   \* useState
  streamRef,        \* streamRef.current: 0 (null) or a stream id
  scanLoop,         \* the SCANNING ambience loop is playing
  textIndex,        \* local of the SCANNING effect (0 once its interval is cleared)
  typingIndex,      \* local of the typing effect (0 once its interval is cleared)
  openStreams,      \* streams whose tracks have not been stopped
  pending,          \* getUserMedia promises not yet settled
  nextReq,          \* id of the next getUserMedia request
  video,            \* the <video> element videoRef.current refers to
  detached,         \* unmounted <video> elements still waiting for loadedmetadata
  timers,           \* armed setTimeout / setInterval timers
  epoch,            \* number of handleReset calls that left a non-IDLE state
  ticks,            \* countdown decrements since COUNTDOWN was entered
  retries,          \* poll retries since DETECTING was entered (up to MaxRetries)
  detections,       \* detections that succeeded since DETECTING was entered
  captureCalls,     \* captureSnapshot invocations since the status left IDLE
  captures,         \* snapshots written since the status left IDLE
  cues,             \* the cues and popup events of the SCAN_PASSED phase in progress
  rotations,        \* ticks of the message rotation since SCANNING was entered
  loopCalls,        \* playScanLoop calls and stop handle calls since the status left IDLE
  artifact,         \* the image the snapshot encodes (empty while there is none)
  voice,            \* the numbers spoken in the COUNTDOWN phase in progress or just ended
  unmounted,        \* React has unmounted the component
  variant,          \* the scanner variant that is running
  last,             \* what the last step ran
  twin,             \* a first session run beside the second, event by event
  sound             \* a SoundEffectsManager, its audio clock and its scan loop

vars ==
  <<status, snapshot, errorMessage, scanningMessage, detectionBox, countdown,
    showFsaPopup, displayedFsaText, isTyping, matchConfidence, streamRef,
    scanLoop, textIndex, typingIndex, openStreams, pending, nextReq, video,
    detached, timers, epoch, ticks, retries, detections, captureCalls,
    captures, cues, rotations, loopCalls, artifact, voice, unmounted, variant,
    last, twin, sound>>

\* the whole state as one record, so that handlers compose
Cur ==
  [status |-> status, snapshot |-> snapshot, errorMessage |-> errorMessage,
   scanningMessage |-> scanningMessage, detectionBox |-> detectionBox,
   countdown |-> countdown, showFsaPopup |-> showFsaPopup,
   displayedFsaText |-> displayedFsaText, isTyping |-> isTyping,
   matchConfidence |-> matchConfidence, streamRef |-> streamRef,
   scanLoop |-> scanLoop, textIndex |-> textIndex, typingIndex |-> typingIndex,
   openStreams |-> openStreams, pending |-> pending, nextReq |-> nextReq,
   video |-> video, detached |-> detached, timers |-> timers, epoch |-> epoch,
   ticks |-> ticks, retries |-> retries, detections |-> detections,
   captureCalls |-> captureCalls, captures |-> captures, cues |-> cues,
   rotations |-> rotations, loopCalls |-> loopCalls, artifact |-> artifact,
   voice |-> voice,
   unmounted |-> unmounted,
   variant |-> variant, last |-> last]

\* the component state becomes s
Assigned(s) ==
  /\ status' = s.status
  /\ snapshot' = s.snapshot
  /\ errorMessage' = s.errorMessage
  /\ scanningMessage' = s.scanningMessage
  /\ detectionBox' = s.detectionBox
  /\ countdown' = s.countdown
  /\ showFsaPopup' = s.showFsaPopup
  /\ displayedFsaText' = s.displayedFsaText
  /\ isTyping' = s.isTyping
  /\ matchConfidence' = s.matchConfidence
  /\ streamRef' = s.streamRef
  /\ scanLoop' = s.scanLoop
  /\ textIndex' = s.textIndex
  /\ typingIndex' = s.typingIndex
  /\ openStreams' = s.openStreams
  /\ pending' = s.pending
  /\ nextReq' = s.nextReq
  /\ video' = s.video
  /\ detached' = s.detached
  /\ timers' = s.timers
  /\ epoch' = s.epoch
  /\ ticks' = s.ticks
  /\ retries' = s.retries
  /\ detections' = s.detections
  /\ captureCalls' = s.captureCalls
  /\ captures' = s.captures
  /\ cues' = s.cues
  /\ rotations' = s.rotations
  /\ loopCalls' = s.loopCalls
  /\ artifact' = s.artifact
  /\ voice' = s.voice
  /\ unmounted' = s.unmounted
  /\ variant' = s.variant
  /\ last' = s.last

\* the three SoundEffectsManager classes of the repository, by file
Managers == {"SoundEffects.ts", "part_001", "part_002"}

\* the oscillators playScanLoop starts (SoundEffects.ts lines 166-168)
Oscillators == {"carrier", "modulator", "panOsc"}

\* no playScanLoop call yet: no handle, no source, no gain automation
\* (ramp: the gain goes linearly from v0 at t0 to v1 at t1; stopAt: the time
\* the sources are scheduled to stop, -1 while they are not)
NoLoop ==
  [handle |-> "none", started |-> {}, running |-> {}, gain |-> 0,
   ramp |-> [t0 |-> 0, v0 |-> 0, t1 |-> 0, v1 |-> 0], stopAt |-> -1,
   stopped |-> FALSE, stopT |-> 0]

\* a manager constructed with (ctx) or without an AudioContext, lines 9-19
Manager(m, ctx) == [manager |-> m, ctx |-> ctx, now |-> 0, loop |-> NoLoop]

\* the manager the scanner imports, idle
Silent == Manager("SoundEffects.ts", TRUE)

\* no first session runs beside the component
NoTwin == [mode |-> "off", rec |-> <<>>]

Becomes(s) == Assigned(s) /\ twin' = twin /\ sound' = sound

\* ------------------------------------------------------------------ timers
Timer(n, ms, ep) == [name |-> n, rem |-> ms, active |-> TRUE, ep |-> ep]

\* setTimeout / setInterval
Arm(s, n, ms) == [s EXCEPT !.timers = @ \cup {Timer(n, ms, s.epoch)}]

\* clearTimeout / clearInterval of the named timers
Clear(s, names) == [s EXCEPT !.timers = {t \in @ : t.name \notin names}]

\* ---------------------------------------------------------------- helpers
\* lines 117-122
stopCamera(s) ==
  IF s.streamRef # 0
  THEN [s EXCEPT !.openStreams = @ \ {s.streamRef}, !.streamRef = 0]
  ELSE s

\* lines 124-127
clearSoundTimeouts(s) == Clear(s, SoundTimers)

\* the <video> element is rendered by the default branch of renderContent
\* while there is no snapshot (lines 455-480, 662-668)
VideoRendered(st, snap) ==
  /\ st \in {"INITIALIZING", "DETECTING", "CAPTURED", "SCANNING", "SCAN_PASSED"}
  /\ snap = Null

\* videoRef.current is null
NoVideo ==
  [mounted |-> FALSE, src |-> 0, handler |-> FALSE, meta |-> FALSE,
   paused |-> TRUE, videoWidth |-> 0, videoHeight |-> 0, mark |-> <<0, 0>>,
   ep |-> 0]

\* a freshly mounted <video> element without a source
NewVideo == [NoVideo EXCEPT !.mounted = TRUE]

\* detectionBox is null
NoBox == <<>>

\* there is no snapshot, so no image
NoImage == <<>>

\* playScanLoop has not been called
NoCalls == [start |-> 0, stop |-> 0]

\* React mounts or unmounts the <video> element and sets videoRef.current
MountVideo(s) ==
  IF VideoRendered(s.status, s.snapshot)
  THEN IF ~s.video.mounted THEN [s EXCEPT !.video = NewVideo] ELSE s
  ELSE IF ~s.video.mounted THEN s
       ELSE [s EXCEPT
               !.video = NoVideo,
               !.detached = IF s.video.handler /\ ~s.video.meta
                            THEN @ \cup {[src |-> s.video.src, ep |-> s.video.ep]}
                            ELSE @]

\* the test of detectFace, lines 188-193
VideoReady(s) ==
  /\ s.video.mounted
  /\ ~s.video.paused
  /\ s.video.videoWidth # 0

\* detectFace with detectionActive.current true, lines 187-221
detectFace(s) ==
  IF ~VideoReady(s)
  THEN Arm([s EXCEPT !.retries = IF @ < MaxRetries THEN @ + 1 ELSE @],
           "poll", PollRetryMs)
  ELSE Arm(s, "dwell", DetectionDelayMs)

\* the cleanup of the DETECTING branch, lines 224-226: detectionActive.current
\* = false; the timers themselves stay armed
cleanupDetecting(s) ==
  [s EXCEPT !.timers =
     {IF t.name \in {"poll", "dwell"} THEN [t EXCEPT !.active = FALSE] ELSE t
        : t \in @}]

\* line 232
cleanupCaptured(s) == Clear(s, {"captured"})

\* cleanupScanning without the call of the stop handle (line 265)
cleanupScanningNoStop(s) ==
  [Clear(s, {"scanEnd", "textInterval", "confidenceInterval"})
     EXCEPT !.textIndex = 0, !.rotations = 0]

\* lines 264-269
cleanupScanning(s) ==
  [Clear(s, {"scanEnd", "textInterval", "confidenceInterval"})
     EXCEPT !.scanLoop = FALSE, !.loopCalls.stop = @ + 1,
            !.textIndex = 0, !.rotations = 0]

\* cleanupScanPassed cancelling the phase timer only
cleanupScanPassedPartial(s) == Clear(s, {"finalize"})

\* lines 319-324
cleanupScanPassed(s) ==
  [Clear(clearSoundTimeouts(s), {"showPopup", "hidePopup", "finalize"})
     EXCEPT !.cues = <<>>]

\* an event of the SCAN_PASSED phase happens
Cue(s, c) == [s EXCEPT !.cues = Append(@, c)]

\* runScanPassed with the PEP alert scheduled at the offset of the risk alert
runScanPassedPepLate(s) ==
  Arm(Arm(Arm(Arm(Arm(Arm(Arm(Arm(
    clearSoundTimeouts([s EXCEPT !.cues = <<"playSuccess">>]),
    "ekycTag", EkycTagMs), "worldCheckTag", WorldCheckTagMs),
    "nameReveal", NameRevealMs), "pepTag", RiskTextMs),
    "riskText", RiskTextMs), "showPopup", ShowPopupMs),
    "hidePopup", HidePopupMs), "finalize", FinalizeMs)

\* the SCAN_PASSED branch, lines 273-317
runScanPassed(s) ==
  Arm(Arm(Arm(Arm(Arm(Arm(Arm(Arm(
    clearSoundTimeouts([s EXCEPT !.cues = <<"playSuccess">>]),
    "ekycTag", EkycTagMs), "worldCheckTag", WorldCheckTagMs),
    "nameReveal", NameRevealMs), "pepTag", PepTagMs),
    "riskText", RiskTextMs), "showPopup", ShowPopupMs),
    "hidePopup", HidePopupMs), "finalize", FinalizeMs)

\* line 333
cleanupFinalizing(s) == Clear(s, {"finalizing"})

\* line 341: only the run with countdown > 0 returns a cleanup
cleanupCountdown(s, cd) == IF cd > 0 THEN Clear(s, {"count"}) ELSE s

\* line 353
cleanupOnboarded(s) == Clear(s, {"onboarded"})

\* the cleanup function the status effect returned when it ran for status st
\* with countdown cd
EffectCleanup(s, st, cd) ==
  CASE st = "DETECTING" -> cleanupDetecting(s)
    [] st = "CAPTURED" -> cleanupCaptured(s)
    [] st = "SCANNING" -> cleanupScanning(s)
    [] st = "SCAN_PASSED" -> cleanupScanPassed(s)
    [] st = "FINALIZING" -> cleanupFinalizing(s)
    [] st = "COUNTDOWN" -> cleanupCountdown(s, cd)
    [] st = "ONBOARDED" -> cleanupOnboarded(s)
    [] OTHER -> s

\* playCountdownVoice that speaks nothing
playCountdownVoiceMuted(s, num) == s

\* lines 40-58: the number is handed to the speech synthesis
playCountdownVoice(s, num) == [s EXCEPT !.voice = Append(@, num)]

\* runCountdown without the countdown > 0 test
runCountdownUnguarded(s) == Arm(s, "count", CountdownTickMs)

\* the COUNTDOWN branch, lines 337-345: at 0 it calls setStatus(ONBOARDED),
\* and the effect then runs for ONBOARDED
runCountdown(s) ==
  IF s.countdown > 0
  THEN Arm(playCountdownVoice(s, s.countdown), "count", CountdownTickMs)
  ELSE Arm([s EXCEPT !.status = "ONBOARDED"], "onboarded", OnboardedDelayMs)

\* the body of the status effect, lines 160-370, run for s.status
EffectRun(s) ==
  CASE s.status = "INITIALIZING" ->
         [s EXCEPT !.pending = @ \cup {[id |-> s.nextReq, ep |-> s.epoch]},
                   !.nextReq = @ + 1]
    [] s.status = "DETECTING" ->
         detectFace([s EXCEPT !.retries = 0, !.detections = 0])
    [] s.status = "CAPTURED" -> Arm(s, "captured", CapturedDelayMs)
    [] s.status = "SCANNING" ->
         Arm(Arm(Arm([s EXCEPT !.scanLoop = TRUE, !.loopCalls.start = @ + 1,
                               !.scanningMessage = 0, !.matchConfidence = 0,
                               !.textIndex = 0, !.rotations = 0],
                     "textInterval", TextIntervalMs),
                 "confidenceInterval", ConfidenceIntervalMs),
             "scanEnd", ScanDurationMs)
    [] s.status = "SCAN_PASSED" -> runScanPassed(s)
    [] s.status = "FINALIZING" -> Arm(s, "finalizing", FinalizingDelayMs)
    [] s.status = "COUNTDOWN" -> runCountdown(s)
    [] s.status = "ONBOARDED" -> Arm(s, "onboarded", OnboardedDelayMs)
    [] s.status \in {"SUCCESS", "ERROR"} -> stopCamera(s)
    [] OTHER -> s

\* the typing effect, lines 373-393, depends on showFsaPopup only
TypingEffect(old, s) ==
  IF old.showFsaPopup = s.showFsaPopup THEN s
  ELSE IF s.showFsaPopup
       THEN Arm([s EXCEPT !.isTyping = TRUE, !.typingIndex = 0],
                "typingInterval", TypingIntervalMs)
       ELSE [Clear(s, {"typingInterval"}) EXCEPT
               !.isTyping = FALSE, !.displayedFsaText = 0, !.typingIndex = 0]

\* the bookkeeping of a detection cycle is kept until its capture has been
\* shown (status DETECTING or CAPTURED), that of a session until the status
\* is IDLE again; the calls of the scan loop are counted from the step in
\* which the status leaves IDLE
Trace(old, s) ==
  LET l == IF old.status = "IDLE" /\ s.status # "IDLE"
           THEN [s EXCEPT !.loopCalls = NoCalls] ELSE s
      t == IF l.status \in {"COUNTDOWN", "ONBOARDED"}
           THEN l ELSE [l EXCEPT !.voice = <<>>]
  IN  IF t.status \in {"DETECTING", "CAPTURED"} THEN t
      ELSE IF t.status = "IDLE"
           THEN [t EXCEPT !.retries = 0, !.detections = 0,
                          !.captureCalls = 0, !.captures = 0]
           ELSE [t EXCEPT !.retries = 0, !.detections = 0]

\* Commit with a status effect that has no dependency list: it is cleaned up
\* and run after every render
CommitEveryRender(old, s) ==
  LET m == MountVideo(s)
      e == EffectRun(EffectCleanup(m, old.status, old.countdown))
  IN  Trace(old, TypingEffect(old, e))

\* React commits the state changes of a handler: refs are updated, then the
\* effects whose dependencies changed are cleaned up and run again
Commit(old, s) ==
  LET m == MountVideo(s)
      e == IF m.status # old.status \/ m.countdown # old.countdown
           THEN EffectRun(EffectCleanup(m, old.status, old.countdown))
           ELSE m
  IN  Trace(old, TypingEffect(old, e))

\* ---------------------------------------------------------------- handlers
\* handleReset without setSnapshot(null)
handleResetKeepsSnapshot(s) ==
  [clearSoundTimeouts(s) EXCEPT
     !.errorMessage = Null, !.detectionBox = NoBox,
     !.showFsaPopup = FALSE, !.matchConfidence = 0, !.status = "IDLE"]

\* lines 129-137
handleReset(s) ==
  [clearSoundTimeouts(s) EXCEPT
     !.snapshot = Null, !.artifact = NoImage, !.errorMessage = Null,
     !.detectionBox = NoBox,
     !.showFsaPopup = FALSE, !.matchConfidence = 0, !.status = "IDLE"]

\* the smaller of two abscissas
Min(a, b) == IF a <= b THEN a ELSE b

\* translate(W, 0) without the scale(-1, 1) of line 149
CanvasXNoScale(W, x) == W + x

\* the canvas abscissa of the source abscissa x under translate(W, 0) and
\* scale(-1, 1), lines 148-149
CanvasX(W, x) == W + (-1) * x

\* drawImage(video, 0, 0, canvas.width, canvas.height) on the canvas sized to
\* the frame, lines 144-150: the canvas pixel that receives the marked pixel
\* of the frame (the pixel of column c covers the abscissas c to c + 1)
Drawn(v) ==
  [width  |-> v.videoWidth,
   height |-> v.videoHeight,
   mark   |-> IF v.videoWidth = 0 \/ v.videoHeight = 0
              THEN <<>>
              ELSE <<Min(CanvasX(v.videoWidth, v.mark[1]),
                         CanvasX(v.videoWidth, v.mark[1] + 1)),
                     v.mark[2]>>]

\* lines 139-158; the hidden canvas is always rendered
captureSnapshot(s) ==
  LET c == [s EXCEPT !.captureCalls = @ + 1]
  IN  IF c.video.mounted
      THEN stopCamera([c EXCEPT
             !.snapshot = IF c.video.videoWidth = 0 THEN "blank" ELSE "frame",
             !.artifact = <<Drawn(c.video)>>,
             !.status = "CAPTURED",
             !.captures = @ + 1])
      ELSE c

\* lengths of a detection box are kept in fortieths of a pixel, in which
\* every product and quotient of lines 206-216 and of part_003 lines 118-128
\* is a whole number
Unit == 40

\* Box with x and y left at the corner of the frame
BoxAtCorner(w, h) ==
  [x |-> 0, y |-> 0, width |-> (w * Unit * 3) \div 10,
   height |-> (h * Unit * 4) \div 10]

\* lines 206-216: boxWidth = videoWidth * 0.3, boxHeight = videoHeight * 0.4,
\* x = (videoWidth - boxWidth) / 2, y = (videoHeight - boxHeight) / 2
Box(w, h) ==
  LET bw == (w * Unit * 3) \div 10
      bh == (h * Unit * 4) \div 10
  IN  [x |-> (w * Unit - bw) \div 2, y |-> (h * Unit - bh) \div 2,
       width |-> bw, height |-> bh]

\* setTimeout(detectFace, 500), lines 187-196: a poll of a detection cycle
\* whose detectionActive flag was cleared does nothing
pollExpired(s, t) == IF t.active THEN detectFace(s) ELSE s

\* dwellExpired without the detectionActive test of line 202
dwellExpiredUnguarded(s, t) ==
  Arm([s EXCEPT
         !.detections = @ + 1,
         !.detectionBox = <<Box(s.video.videoWidth, s.video.videoHeight)>>],
      "lock", LockDelayMs)

\* the detection timer, lines 201-220
dwellExpired(s, t) ==
  IF ~t.active THEN s
  ELSE Arm([s EXCEPT
              !.timers = {IF u.name \in {"poll", "dwell"}
                          THEN [u EXCEPT !.active = FALSE] ELSE u : u \in @},
              !.detections = @ + 1,
              !.detectionBox = <<Box(s.video.videoWidth, s.video.videoHeight)>>],
           "lock", LockDelayMs)

\* line 219
lockExpired(s) == captureSnapshot(s)

\* capturedExpired without the setStatus of line 231
capturedExpiredNoStatus(s) == s

\* line 231
capturedExpired(s) == [s EXCEPT !.status = "SCANNING"]

\* textIntervalTick without the wrap of line 246
textIntervalTickNoWrap(s) ==
  [s EXCEPT !.textIndex = @ + 1, !.scanningMessage = s.textIndex + 1,
            !.rotations = @ + 1]

\* lines 245-249
textIntervalTick(s) ==
  [s EXCEPT !.textIndex = (@ + 1) % NumScanningTexts,
            !.scanningMessage = (s.textIndex + 1) % NumScanningTexts,
            !.rotations = @ + 1]

\* confidenceIntervalTick without the ceiling test of line 254
confidenceIntervalTickNoCeiling(s) == [s EXCEPT !.matchConfidence = @ + 1]

\* lines 252-257
confidenceIntervalTick(s) ==
  [s EXCEPT !.matchConfidence =
     IF @ >= ConfidenceCeiling THEN ConfidenceCeiling ELSE @ + 1]

\* lines 259-262
scanEndExpired(s) ==
  [s EXCEPT !.matchConfidence = ConfidenceFinal, !.status = "SCAN_PASSED"]

\* lines 305-307
showPopupExpired(s) == Cue([s EXCEPT !.showFsaPopup = TRUE], "popupShown")

\* lines 310-312
hidePopupExpired(s) == Cue([s EXCEPT !.showFsaPopup = FALSE], "popupHidden")

\* lines 315-317
finalizeExpired(s) == [s EXCEPT !.status = "FINALIZING"]

\* finalizingExpired without setCountdown(5)
finalizingExpiredNoReset(s) == [s EXCEPT !.status = "COUNTDOWN", !.ticks = 0]

\* lines 329-332
finalizingExpired(s) ==
  [s EXCEPT !.countdown = CountdownStart, !.status = "COUNTDOWN", !.ticks = 0]

\* line 340
countExpired(s) == [s EXCEPT !.countdown = @ - 1, !.ticks = @ + 1]

\* onboardedExpired ending the timeline in SUCCESS
onboardedExpiredSuccess(s) == [s EXCEPT !.status = "SUCCESS"]

\* lines 350-352
onboardedExpired(s) == [s EXCEPT !.status = "WELCOME"]

\* typingIntervalTick without the end test of lines 381-384
typingIntervalTickNoStop(s) ==
  [s EXCEPT !.displayedFsaText =
              IF s.typingIndex > FsaTextLength THEN FsaTextLength ELSE s.typingIndex,
            !.typingIndex = IF @ > FsaTextLength THEN @ ELSE @ + 1]

\* lines 377-385
typingIntervalTick(s) ==
  LET shown == [s EXCEPT !.displayedFsaText = s.typingIndex,
                         !.typingIndex = @ + 1]
  IN  IF shown.typingIndex > FsaTextLength
      THEN [Clear(shown, {"typingInterval"}) EXCEPT !.isTyping = FALSE,
                                                    !.typingIndex = 0]
      ELSE shown

\* the callback of timer t
Callback(s, t) ==
  CASE t.name = "poll" -> pollExpired(s, t)
    [] t.name = "dwell" -> dwellExpired(s, t)
    [] t.name = "lock" -> lockExpired(s)
    [] t.name = "captured" -> capturedExpired(s)
    [] t.name = "textInterval" -> textIntervalTick(s)
    [] t.name = "confidenceInterval" -> confidenceIntervalTick(s)
    [] t.name = "scanEnd" -> scanEndExpired(s)
    [] t.name = "showPopup" -> showPopupExpired(s)
    [] t.name = "hidePopup" -> hidePopupExpired(s)
    [] t.name = "finalize" -> finalizeExpired(s)
    [] t.name = "finalizing" -> finalizingExpired(s)
    [] t.name = "count" -> countExpired(s)
    [] t.name = "onboarded" -> onboardedExpired(s)
    [] t.name = "typingInterval" -> typingIntervalTick(s)
    [] t.name = "ekycTag" -> Cue(s, "playTagAppear")            \* line 281
    [] t.name = "worldCheckTag" -> Cue(s, "playTagAppear")       \* line 286
    [] t.name = "nameReveal" -> Cue(s, "playDataReveal")         \* line 291
    [] t.name = "pepTag" -> Cue(s, "playPepAlert")               \* line 296
    [] t.name = "riskText" -> Cue(s, "playRiskAlert")            \* line 301
    [] OTHER -> s

\* what a step ran: the operation, the epoch in which it was armed or
\* requested, the status and countdown it found and, for a reset, the live
\* timers it found
RanIn(s, o, e) ==
  [op |-> o, ep |-> e, from |-> s.status, cd |-> s.countdown,
   had |-> IF o = "reset" THEN {t.name : t \in {u \in s.timers : u.active}} ELSE {}]

Ran(o, e) == RanIn(Cur, o, e)

\* ------------------------------------------------------------------- Init
\* the state after the first render of either variant
Fresh ==
  /\ status = "IDLE"
  /\ snapshot = Null
  /\ errorMessage = Null
  /\ scanningMessage = 0
  /\ detectionBox = NoBox
  /\ countdown = CountdownStart
  /\ showFsaPopup = FALSE
  /\ displayedFsaText = 0
  /\ isTyping = FALSE
  /\ matchConfidence = 0
  /\ streamRef = 0
  /\ scanLoop = FALSE
  /\ textIndex = 0
  /\ typingIndex = 0
  /\ openStreams = {}
  /\ pending = {}
  /\ nextReq = 1
  /\ video = NoVideo
  /\ detached = {}
  /\ timers = {}
  /\ epoch = 0
  /\ ticks = 0
  /\ retries = 0
  /\ detections = 0
  /\ captureCalls = 0
  /\ captures = 0
  /\ cues = <<>>
  /\ rotations = 0
  /\ loopCalls = NoCalls
  /\ artifact = NoImage
  /\ voice = <<>>
  /\ unmounted = FALSE
  /\ last = [op |-> "init", ep |-> 0, from |-> "IDLE", cd |-> CountdownStart, had |-> {}]

\* src/components/FaceScanner.tsx is running
Init == Fresh /\ variant = "main" /\ twin = NoTwin /\ sound = Silent

\* src/unnamed/part_003 is running
AutoInit == Fresh /\ variant = "auto" /\ twin = NoTwin /\ sound = Silent

\* ---------------------------------------------------------------- actions
\* the component of the main variant is mounted
Main == variant = "main" /\ ~unmounted /\ twin.mode # "second"

\* the component of the auto-reset variant is mounted
Auto == variant = "auto" /\ ~unmounted

\* handleStart, lines 398-402 (the Start Scan button of the IDLE screen)
handleStart(s) ==
  Commit(s, [handleReset(s) EXCEPT
               !.status = "INITIALIZING",
               !.captureCalls = 0,
               !.captures = 0,
               !.last = RanIn(s, "start", s.epoch)])

Start ==
  /\ Main
  /\ status = "IDLE"
  /\ nextReq <= MaxRequests
  /\ Becomes(handleStart(Cur))

\* handleReset invoked in a state other than IDLE
resetPressed(s) ==
  Commit(s, [handleReset(s) EXCEPT
               !.epoch = @ + 1,
               !.last = RanIn(s, "reset", s.epoch + 1)])

Reset ==
  /\ Main
  /\ status # "IDLE"
  /\ Becomes(resetPressed(Cur))

\* getUserMedia resolves, lines 166-175
granted(s, r) ==
  LET s1 == [s EXCEPT !.pending = @ \ {r},
                      !.openStreams = @ \cup {r.id},
                      !.streamRef = r.id,
                      !.last = RanIn(s, "grant", r.ep)]
      s2 == IF s1.video.mounted
            THEN [s1 EXCEPT !.video =
                    [mounted |-> TRUE, src |-> r.id, handler |-> TRUE,
                     meta |-> FALSE, paused |-> s1.video.paused,
                     videoWidth |-> 0, videoHeight |-> 0,
                     mark |-> <<0, 0>>, ep |-> r.ep]]
            ELSE s1
  IN  Commit(s, s2)

Grant ==
  /\ Main
  /\ \E r \in pending : Becomes(granted(Cur, r))

\* getUserMedia rejects, lines 176-180
rejected(s, r) ==
  Commit(s, [s EXCEPT !.pending = @ \ {r},
                      !.errorMessage = "denied",
                      !.status = "ERROR",
                      !.last = RanIn(s, "deny", r.ep)])

Deny ==
  /\ Main
  /\ \E r \in pending : Becomes(rejected(Cur, r))

\* onloadedmetadata without setStatus(DETECTING)
onloadedmetadataNoStatus(s) == s

\* the handler body, lines 170-173, after videoRef.current?.play()
onloadedmetadata(s) == [s EXCEPT !.status = "DETECTING"]

\* onloadedmetadata of the mounted element, lines 170-173; play() may leave
\* the element paused until playback actually starts
\* the element of s can still report its metadata
MetadataDue(s) ==
  /\ s.video.mounted
  /\ s.video.handler /\ ~s.video.meta
  /\ s.video.src \in s.openStreams

metadataLoaded(s, p, size) ==
  Commit(s, onloadedmetadata([s EXCEPT
               !.video = [@ EXCEPT !.meta = TRUE, !.paused = p,
                                   !.videoWidth = size[1],
                                   !.videoHeight = size[2],
                                   !.mark = size[3]],
               !.last = RanIn(s, "metadata", s.video.ep)]))

LoadedMetadataOf(frames) ==
  /\ Main
  /\ MetadataDue(Cur)
  /\ \E p \in BOOLEAN : \E size \in frames :
       Becomes(metadataLoaded(Cur, p, size))

LoadedMetadata == LoadedMetadataOf(FrameSizes)

\* onloadedmetadata of an element that was unmounted before it fired
DetachedMetadata ==
  /\ Main
  /\ \E d \in detached :
       /\ d.src \in openStreams
       /\ Becomes(Commit(Cur, onloadedmetadata([Cur EXCEPT
                                 !.detached = @ \ {d},
                                 !.video = IF @.mounted THEN [@ EXCEPT !.paused = FALSE] ELSE @,
                                 !.last = Ran("detachedMetadata", d.ep)])))

\* playback of the mounted element starts
playbackStarted(s) ==
  [s EXCEPT !.video = [@ EXCEPT !.paused = FALSE],
            !.last = RanIn(s, "playing", s.epoch)]

Playing ==
  /\ ~unmounted /\ twin.mode # "second"
  /\ video.mounted
  /\ video.meta /\ video.paused
  /\ Becomes(playbackStarted(Cur))

\* time passes until the next expiry and one due timer runs its callback
\* timer t of s is due next
Due(s, t) == t \in s.timers /\ \A u \in s.timers : t.rem <= u.rem

expired(s, t) ==
  LET rest  == {[u EXCEPT !.rem = @ - t.rem] : u \in s.timers \ {t}}
      again == IF IntervalPeriod(t.name) > 0
               THEN {[t EXCEPT !.rem = IntervalPeriod(t.name)]}
               ELSE {}
      s0 == [s EXCEPT !.timers = rest \cup again,
                      !.last = RanIn(s, t.name, t.ep)]
  IN  Commit(s, Callback(s0, t))

Elapse ==
  /\ Main
  /\ \E t \in timers : Due(Cur, t) /\ Becomes(expired(Cur, t))

\* two timers are due at the same instant and the callback of the first
\* changes the state so that the effect cleanup will clear the second: React
\* renders and runs that cleanup only after the timer task has returned, so
\* the second callback can run in between, on top of the queued state
\* updates of the first (both are committed in one render)
\* the state of s after the callback of t, with u due, before React renders
firstOfTied(s, t, u) ==
  LET due   == [u EXCEPT !.rem = 0]
      rest  == {[w EXCEPT !.rem = @ - t.rem] : w \in s.timers \ {t, u}}
      again == IF IntervalPeriod(t.name) > 0
               THEN {[t EXCEPT !.rem = IntervalPeriod(t.name)]}
               ELSE {}
      s0 == [s EXCEPT !.timers = rest \cup again \cup {due},
                      !.last = RanIn(s, t.name, t.ep)]
  IN  Callback(s0, t)

\* t and u of s are due together and the cleanup that follows the callback
\* of t would clear u
TiedDue(s, t, u) ==
  /\ Due(s, t) /\ u \in s.timers \ {t} /\ u.rem = t.rem
  /\ [u EXCEPT !.rem = 0] \in firstOfTied(s, t, u).timers
  /\ [u EXCEPT !.rem = 0] \notin Commit(s, firstOfTied(s, t, u)).timers

expiredTied(s, t, u) ==
  LET due  == [u EXCEPT !.rem = 0]
      next == IF IntervalPeriod(u.name) > 0
              THEN {[u EXCEPT !.rem = IntervalPeriod(u.name)]}
              ELSE {}
      s1 == firstOfTied(s, t, u)
  IN  Commit(s, Callback([s1 EXCEPT !.timers = (@ \ {due}) \cup next], u))

ElapseTied ==
  /\ Main
  /\ \E t \in timers : \E u \in timers \ {t} :
       TiedDue(Cur, t, u) /\ Becomes(expiredTied(Cur, t, u))

\* handleReset from the buttons the screens offer: New Scan (SUCCESS), Retry
\* (ERROR) and Proceed (WELCOME), lines 431, 447, 713
ResetButton ==
  /\ status \in {"SUCCESS", "ERROR", "WELCOME"}
  /\ Reset

Next ==
  \/ Start
  \/ Reset
  \/ Grant
  \/ Deny
  \/ LoadedMetadata
  \/ DetachedMetadata
  \/ Playing
  \/ Elapse
  \/ ElapseTied

Spec == Init /\ [][Next]_vars

\* the browser delivers loadedmetadata of a mounted element bound to a live
\* stream
LiveSpec == Spec /\ WF_vars(LoadedMetadata)

\* the operations the screens offer: reset only from the result screens
UiNext ==
  \/ Start
  \/ ResetButton
  \/ Grant
  \/ Deny
  \/ LoadedMetadata
  \/ Playing
  \/ Elapse
  \/ ElapseTied

UiSpec == Init /\ [][UiNext]_vars

\* ------------------------------------------- a second session beside a first
\* v where the screen of the status shows it, nothing elsewhere
Visible(shows, v) == IF shows THEN <<v>> ELSE <<>>

\* what renderContent shows of a state, lines 404-783: the status, the
\* snapshot in place of the live video, the error text (ERROR case), the
\* detection region (DETECTING, CAPTURED and SCAN_PASSED), the confidence
\* value and scanning message (SCANNING), the countdown value (COUNTDOWN) and
\* the popup with its typed text
Shown(s) ==
  [status          |-> s.status,
   snapshot        |-> Visible(s.status \notin {"IDLE", "ERROR"}, s.artifact),
   errorMessage    |-> Visible(s.status = "ERROR", s.errorMessage),
   detectionBox    |-> Visible(s.status \in {"DETECTING", "CAPTURED", "SCAN_PASSED"},
                               s.detectionBox),
   matchConfidence |-> Visible(s.status = "SCANNING", s.matchConfidence),
   scanningMessage |-> Visible(s.status = "SCANNING", s.scanningMessage),
   countdown       |-> Visible(s.status = "COUNTDOWN", s.countdown),
   showFsaPopup    |-> s.showFsaPopup,
   typed           |-> Visible(s.showFsaPopup, <<s.displayedFsaText, s.isTyping>>)]

\* the camera and timer events a state can receive next: the armed timers
\* with the time left, the unanswered camera requests and the video element
Offers(s) ==
  [timers   |-> {<<t.name, t.rem, t.active>> : t \in s.timers},
   requests |-> Cardinality(s.pending),
   video    |-> <<s.video.mounted, MetadataDue(s), s.video.meta, s.video.paused,
                  s.video.videoWidth, s.video.videoHeight>>]

\* the first session starts beside the component, in the state after the
\* first render, and waits for the reset that ends the session on screen
PairInit ==
  /\ Fresh /\ variant = "main"
  /\ twin = [mode |-> "first", rec |-> <<Cur>>]
  /\ sound = Silent

\* the first session, at the point the second has reached
First == twin.rec[1]

\* the second session is running
Second == variant = "main" /\ ~unmounted /\ twin.mode = "second"

\* the component becomes s and the first session beside it becomes f
Both(s, f) ==
  Assigned(s) /\ twin' = [twin EXCEPT !.rec = <<f>>] /\ sound' = sound

\* the reset of a result screen (lines 431, 447, 713) ends the session on
\* screen; from here on the first session receives the events of the second
Again ==
  /\ Main /\ twin.mode = "first"
  /\ status \in {"SUCCESS", "ERROR", "WELCOME"}
  /\ Assigned(resetPressed(Cur))
  /\ twin' = [twin EXCEPT !.mode = "second"]
  /\ sound' = sound

PairStart ==
  /\ Second
  /\ status = "IDLE" /\ First.status = "IDLE"
  /\ nextReq <= MaxRequests
  /\ Both(handleStart(Cur), handleStart(First))

PairGrant ==
  /\ Second
  /\ \E r \in pending : \E q \in First.pending :
       Both(granted(Cur, r), granted(First, q))

PairDeny ==
  /\ Second
  /\ \E r \in pending : \E q \in First.pending :
       Both(rejected(Cur, r), rejected(First, q))

PairLoadedMetadata ==
  /\ Second
  /\ MetadataDue(Cur) /\ MetadataDue(First)
  /\ \E p \in BOOLEAN : \E size \in FrameSizes :
       Both(metadataLoaded(Cur, p, size), metadataLoaded(First, p, size))

PairPlaying ==
  /\ Second
  /\ video.mounted /\ video.meta /\ video.paused
  /\ First.video.mounted /\ First.video.meta /\ First.video.paused
  /\ Both(playbackStarted(Cur), playbackStarted(First))

\* the same timer expires in both sessions
PairElapse ==
  /\ Second
  /\ \E t \in timers : \E q \in First.timers :
       /\ q.name = t.name
       /\ Due(Cur, t) /\ Due(First, q)
       /\ Both(expired(Cur, t), expired(First, q))

PairElapseTied ==
  /\ Second
  /\ \E t \in timers : \E u \in timers \ {t} :
       \E q \in First.timers : \E v \in First.timers \ {q} :
         /\ q.name = t.name /\ v.name = u.name
         /\ TiedDue(Cur, t, u) /\ TiedDue(First, q, v)
         /\ Both(expiredTied(Cur, t, u), expiredTied(First, q, v))

PairNext ==
  \/ Start
  \/ Grant
  \/ Deny
  \/ LoadedMetadata
  \/ Playing
  \/ Elapse
  \/ ElapseTied
  \/ Again
  \/ PairStart
  \/ PairGrant
  \/ PairDeny
  \/ PairLoadedMetadata
  \/ PairPlaying
  \/ PairElapse
  \/ PairElapseTied

PairSpec == PairInit /\ [][PairNext]_vars

\* one session that the user never resets; armed timers expire
SessionNext ==
  \/ Start
  \/ Grant
  \/ Deny
  \/ LoadedMetadata
  \/ Playing
  \/ Elapse
  \/ ElapseTied

SessionSpec ==
  Init /\ [][SessionNext]_vars /\ WF_vars(Elapse \/ ElapseTied)

\* captureSnapshot when canvas.getContext('2d') returns null, lines 139-158:
\* the canvas is sized and the test of line 146 fails; there is no else
captureSnapshotNoContext(s) == [s EXCEPT !.captureCalls = @ + 1]

\* the lock timer expires (line 219) and the canvas yields no 2D context
ElapseNoContext ==
  /\ Main
  /\ \E t \in timers :
       /\ t.name = "lock"
       /\ \A u \in timers : t.rem <= u.rem
       /\ LET s0 == [Cur EXCEPT
                       !.timers = {[u EXCEPT !.rem = @ - t.rem] : u \in timers \ {t}},
                       !.last = Ran("lock", t.ep)]
          IN  Becomes(Commit(Cur, captureSnapshotNoContext(s0)))

\* the operations the screens offer, with a canvas that may refuse a 2D
\* context; armed timers expire
ContextNext ==
  \/ Start
  \/ ResetButton
  \/ Grant
  \/ Deny
  \/ LoadedMetadata
  \/ Playing
  \/ Elapse
  \/ ElapseTied
  \/ ElapseNoContext

ContextSpec ==
  Init /\ [][ContextNext]_vars /\ WF_vars(Elapse \/ ElapseTied \/ ElapseNoContext)

\* handleStart, up to MaxRetryRequests times
Restart ==
  /\ Main
  /\ status = "IDLE"
  /\ nextReq <= MaxRetryRequests
  /\ Becomes(Commit(Cur, [handleReset(Cur) EXCEPT
                            !.status = "INITIALIZING",
                            !.captureCalls = 0,
                            !.captures = 0,
                            !.last = Ran("start", epoch)]))

\* handleReset while the camera is being acquired
EarlyReset ==
  /\ status = "INITIALIZING"
  /\ Reset

\* sessions that are reset only while INITIALIZING or from a result screen
RetryNext ==
  \/ Restart
  \/ EarlyReset
  \/ ResetButton
  \/ Grant
  \/ Deny
  \/ LoadedMetadata
  \/ DetachedMetadata
  \/ Playing
  \/ Elapse
  \/ ElapseTied

RetrySpec == Init /\ [][RetryNext]_vars

\* ------------------------------------------------------------- unmounting
\* the cleanup of the typing effect, lines 387-391, on unmount: its setState
\* calls are ignored
cleanupTypingUnmounted(s) ==
  IF s.showFsaPopup
  THEN [Clear(s, {"typingInterval"}) EXCEPT !.typingIndex = 0]
  ELSE s

\* the useState values of a component that React has unmounted no longer
\* exist: they are shown as the values of the first render, and the
\* bookkeeping of the session that was running ends with them
Discarded(s) ==
  [s EXCEPT !.status = "IDLE", !.snapshot = Null, !.errorMessage = Null,
            !.scanningMessage = 0, !.detectionBox = NoBox,
            !.countdown = CountdownStart, !.showFsaPopup = FALSE,
            !.displayedFsaText = 0, !.isTyping = FALSE, !.matchConfidence = 0,
            !.artifact = NoImage, !.voice = <<>>, !.ticks = 0, !.retries = 0, !.detections = 0,
            !.captureCalls = 0, !.captures = 0, !.cues = <<>>]

\* React unmounts the component: the cleanup of every effect runs (the status
\* effect's for the current status, the typing effect's, and stopCamera of
\* line 396), the refs to the elements become null, and from then on setState
\* does nothing; the handlers of removed <video> elements only call setStatus
Unmount ==
  /\ Main
  /\ LET c1 == EffectCleanup(Cur, status, countdown)
         c2 == cleanupTypingUnmounted(c1)
         c3 == stopCamera(c2)
     IN  Becomes([Discarded(c3) EXCEPT !.video = NoVideo,
                                       !.detached = {},
                                       !.unmounted = TRUE,
                                       !.last = Ran("unmount", epoch)])

\* getUserMedia resolves after the unmount, lines 166-175: videoRef.current
\* is null
LateGrant ==
  /\ unmounted
  /\ \E r \in pending :
       Becomes([Cur EXCEPT !.pending = @ \ {r},
                           !.openStreams = @ \cup {r.id},
                           !.streamRef = r.id,
                           !.last = Ran("grant", r.ep)])

\* getUserMedia rejects after the unmount, lines 176-180: both setState calls
\* are ignored
LateDeny ==
  /\ unmounted
  /\ \E r \in pending :
       Becomes([Cur EXCEPT !.pending = @ \ {r}, !.last = Ran("deny", r.ep)])

\* a timer that no cleanup cleared expires after the unmount: its callback
\* finds videoRef.current null (captureSnapshot) or a cleared detectionActive
\* flag, and its setState calls are ignored
LateElapse ==
  /\ unmounted
  /\ \E t \in timers :
       /\ \A u \in timers : t.rem <= u.rem
       /\ Becomes([Cur EXCEPT
                     !.timers = {[u EXCEPT !.rem = @ - t.rem] : u \in timers \ {t}},
                     !.last = Ran(t.name, t.ep)])

\* the main variant with its unmount
LifeNext ==
  \/ Start
  \/ Reset
  \/ Grant
  \/ Deny
  \/ LoadedMetadata
  \/ DetachedMetadata
  \/ Playing
  \/ Elapse
  \/ ElapseTied
  \/ Unmount
  \/ LateGrant
  \/ LateDeny
  \/ LateElapse

LifeSpec == Init /\ [][LifeNext]_vars

\* ------------------------------------------------ the auto-reset variant
\* src/unnamed/part_003: the same controller without sound, confidence
\* counter and popup, with its own delays, and with a WELCOME timer that
\* calls handleReset.  It keeps the names of the main variant with the prefix
\* Auto.

\* part_003 lines 262-280: every status but IDLE, SUCCESS and ERROR renders
\* the default branch
AutoVideoRendered(st, snap) ==
  /\ st \notin {"IDLE", "SUCCESS", "ERROR"}
  /\ snap = Null

AutoMountVideo(s) ==
  IF AutoVideoRendered(s.status, s.snapshot)
  THEN IF ~s.video.mounted THEN [s EXCEPT !.video = NewVideo] ELSE s
  ELSE IF ~s.video.mounted THEN s
       ELSE [s EXCEPT
               !.video = NoVideo,
               !.detached = IF s.video.handler /\ ~s.video.meta
                            THEN @ \cup {[src |-> s.video.src, ep |-> s.video.ep]}
                            ELSE @]

\* part_003 lines 98-132
AutoDetectFace(s) ==
  IF ~VideoReady(s)
  THEN Arm([s EXCEPT !.retries = IF @ < MaxRetries THEN @ + 1 ELSE @],
           "poll", PollRetryMs)
  ELSE Arm(s, "dwell", AutoDetectionDelayMs)

\* part_003 lines 153-156
AutoCleanupScanning(s) ==
  [Clear(s, {"scanEnd", "textInterval"}) EXCEPT !.textIndex = 0, !.rotations = 0]

\* part_003 line 194
AutoCleanupWelcome(s) == Clear(s, {"welcome"})

AutoEffectCleanup(s, st, cd) ==
  CASE st = "DETECTING" -> cleanupDetecting(s)
    [] st = "CAPTURED" -> cleanupCaptured(s)
    [] st = "SCANNING" -> AutoCleanupScanning(s)
    [] st = "SCAN_PASSED" -> Clear(s, {"finalize"})
    [] st = "FINALIZING" -> cleanupFinalizing(s)
    [] st = "COUNTDOWN" -> cleanupCountdown(s, cd)
    [] st = "ONBOARDED" -> cleanupOnboarded(s)
    [] st = "WELCOME" -> AutoCleanupWelcome(s)
    [] OTHER -> s

\* the COUNTDOWN branch of part_003, lines 174-181: no number is spoken
AutoRunCountdown(s) ==
  IF s.countdown > 0
  THEN Arm(s, "count", CountdownTickMs)
  ELSE Arm([s EXCEPT !.status = "ONBOARDED"], "onboarded", OnboardedDelayMs)

\* the status effect of part_003, lines 74-200
AutoEffectRun(s) ==
  CASE s.status = "INITIALIZING" ->
         [s EXCEPT !.pending = @ \cup {[id |-> s.nextReq, ep |-> s.epoch]},
                   !.nextReq = @ + 1]
    [] s.status = "DETECTING" ->
         AutoDetectFace([s EXCEPT !.retries = 0, !.detections = 0])
    [] s.status = "CAPTURED" -> Arm(s, "captured", CapturedDelayMs)
    [] s.status = "SCANNING" ->
         Arm(Arm([s EXCEPT !.scanningMessage = 0, !.textIndex = 0,
                           !.rotations = 0],
                 "textInterval", AutoTextIntervalMs),
             "scanEnd", AutoScanDurationMs)
    [] s.status = "SCAN_PASSED" -> Arm(s, "finalize", AutoScanPassedMs)
    [] s.status = "FINALIZING" -> Arm(s, "finalizing", FinalizingDelayMs)
    [] s.status = "COUNTDOWN" -> AutoRunCountdown(s)
    [] s.status = "ONBOARDED" -> Arm(s, "onboarded", OnboardedDelayMs)
    [] s.status = "WELCOME" -> Arm(s, "welcome", AutoWelcomeMs)
    [] s.status \in {"SUCCESS", "ERROR"} -> stopCamera(s)
    [] OTHER -> s

AutoCommit(old, s) ==
  LET m == AutoMountVideo(s)
  IN  Trace(old, IF m.status # old.status \/ m.countdown # old.countdown
                 THEN AutoEffectRun(AutoEffectCleanup(m, old.status, old.countdown))
                 ELSE m)

\* part_003 lines 47-52
AutoHandleReset(s) ==
  [s EXCEPT !.snapshot = Null, !.artifact = NoImage, !.errorMessage = Null,
            !.detectionBox = NoBox, !.status = "IDLE"]

\* part_003 lines 118-128: boxWidth = videoWidth * 0.25, boxHeight =
\* videoHeight * 0.25, centered as in the main variant
AutoBox(w, h) ==
  LET bw == (w * Unit * 25) \div 100
      bh == (h * Unit * 25) \div 100
  IN  [x |-> (w * Unit - bw) \div 2, y |-> (h * Unit - bh) \div 2,
       width |-> bw, height |-> bh]

\* part_003 lines 113-131
AutoDwellExpired(s, t) ==
  IF ~t.active THEN s
  ELSE Arm([s EXCEPT
              !.timers = {IF u.name \in {"poll", "dwell"}
                          THEN [u EXCEPT !.active = FALSE] ELSE u : u \in @},
              !.detections = @ + 1,
              !.detectionBox = <<AutoBox(s.video.videoWidth, s.video.videoHeight)>>],
           "lock", AutoLockDelayMs)

\* part_003 lines 148-151
AutoTextIntervalTick(s) ==
  [s EXCEPT !.textIndex = (@ + 1) % AutoNumScanningTexts,
            !.scanningMessage = (s.textIndex + 1) % AutoNumScanningTexts,
            !.rotations = @ + 1]

\* the WELCOME timer setting the status only
welcomeExpiredStatusOnly(s) == [s EXCEPT !.status = "IDLE", !.epoch = @ + 1]

\* part_003 lines 191-193
welcomeExpired(s) == [AutoHandleReset(s) EXCEPT !.epoch = @ + 1]

AutoCallback(s, t) ==
  CASE t.name = "poll" -> IF t.active THEN AutoDetectFace(s) ELSE s
    [] t.name = "dwell" -> AutoDwellExpired(s, t)
    [] t.name = "lock" -> captureSnapshot(s)
    [] t.name = "captured" -> capturedExpired(s)
    [] t.name = "textInterval" -> AutoTextIntervalTick(s)
    [] t.name = "scanEnd" -> [s EXCEPT !.status = "SCAN_PASSED"]
    [] t.name = "finalize" -> finalizeExpired(s)
    [] t.name = "finalizing" -> finalizingExpired(s)
    [] t.name = "count" -> countExpired(s)
    [] t.name = "onboarded" -> onboardedExpired(s)
    [] t.name = "welcome" -> welcomeExpired(s)
    [] OTHER -> s

\* handleStart, part_003 lines 204-209
AutoStart ==
  /\ Auto
  /\ status = "IDLE"
  /\ nextReq <= MaxRequests
  /\ Becomes(AutoCommit(Cur, [Cur EXCEPT
                                !.snapshot = Null,
                                !.artifact = NoImage,
                                !.errorMessage = Null,
                                !.detectionBox = NoBox,
                                !.status = "INITIALIZING",
                                !.captureCalls = 0,
                                !.captures = 0,
                                !.last = Ran("start", epoch)]))

\* handleReset invoked in a state other than IDLE
AutoReset ==
  /\ Auto
  /\ status # "IDLE"
  /\ Becomes(AutoCommit(Cur, [AutoHandleReset(Cur) EXCEPT
                                !.epoch = @ + 1,
                                !.last = Ran("reset", epoch + 1)]))

\* part_003 lines 78-87
AutoGrant ==
  /\ Auto
  /\ \E r \in pending :
       LET s1 == [Cur EXCEPT !.pending = @ \ {r},
                             !.openStreams = @ \cup {r.id},
                             !.streamRef = r.id,
                             !.last = Ran("grant", r.ep)]
           s2 == IF s1.video.mounted
                 THEN [s1 EXCEPT !.video =
                         [mounted |-> TRUE, src |-> r.id, handler |-> TRUE,
                          meta |-> FALSE, paused |-> s1.video.paused,
                          videoWidth |-> 0, videoHeight |-> 0,
                          mark |-> <<0, 0>>, ep |-> r.ep]]
                 ELSE s1
       IN  Becomes(AutoCommit(Cur, s2))

\* part_003 lines 88-92
AutoDeny ==
  /\ Auto
  /\ \E r \in pending :
       Becomes(AutoCommit(Cur, [Cur EXCEPT !.pending = @ \ {r},
                                           !.errorMessage = "denied",
                                           !.status = "ERROR",
                                           !.last = Ran("deny", r.ep)]))

\* part_003 lines 82-85
AutoLoadedMetadataOf(frames) ==
  /\ Auto
  /\ video.mounted
  /\ video.handler /\ ~video.meta
  /\ video.src \in openStreams
  /\ \E p \in BOOLEAN : \E size \in frames :
       Becomes(AutoCommit(Cur, onloadedmetadata([Cur EXCEPT
                                  !.video = [@ EXCEPT !.meta = TRUE, !.paused = p,
                                                      !.videoWidth = size[1],
                                                      !.videoHeight = size[2],
                                                      !.mark = size[3]],
                                  !.last = Ran("metadata", video.ep)])))

AutoLoadedMetadata == AutoLoadedMetadataOf(FrameSizes)

AutoDetachedMetadata ==
  /\ Auto
  /\ \E d \in detached :
       /\ d.src \in openStreams
       /\ Becomes(AutoCommit(Cur, onloadedmetadata([Cur EXCEPT
                                     !.detached = @ \ {d},
                                     !.video = IF @.mounted THEN [@ EXCEPT !.paused = FALSE] ELSE @,
                                     !.last = Ran("detachedMetadata", d.ep)])))

AutoElapse ==
  /\ Auto
  /\ \E t \in timers :
       /\ \A u \in timers : t.rem <= u.rem
       /\ LET rest  == {[u EXCEPT !.rem = @ - t.rem] : u \in timers \ {t}}
              again == IF t.name = "textInterval"
                       THEN {[t EXCEPT !.rem = AutoTextIntervalMs]}
                       ELSE {}
              s0 == [Cur EXCEPT !.timers = rest \cup again,
                                !.last = Ran(t.name, t.ep)]
          IN  Becomes(AutoCommit(Cur, AutoCallback(s0, t)))

\* as ElapseTied, for the timers of part_003
AutoElapseTied ==
  /\ Auto
  /\ \E t \in timers : \E u \in timers \ {t} :
       /\ \A w \in timers : t.rem <= w.rem
       /\ u.rem = t.rem
       /\ LET due   == [u EXCEPT !.rem = 0]
              rest  == {[w EXCEPT !.rem = @ - t.rem] : w \in timers \ {t, u}}
              again == IF t.name = "textInterval"
                       THEN {[t EXCEPT !.rem = AutoTextIntervalMs]}
                       ELSE {}
              next  == IF u.name = "textInterval"
                       THEN {[u EXCEPT !.rem = AutoTextIntervalMs]}
                       ELSE {}
              s0 == [Cur EXCEPT !.timers = rest \cup again \cup {due},
                                !.last = Ran(t.name, t.ep)]
              s1 == AutoCallback(s0, t)
              s2 == AutoCallback([s1 EXCEPT !.timers = (@ \ {due}) \cup next], u)
          IN  /\ due \in s1.timers
              /\ due \notin AutoCommit(Cur, s1).timers
              /\ Becomes(AutoCommit(Cur, s2))

AutoNext ==
  \/ AutoStart
  \/ AutoReset
  \/ AutoGrant
  \/ AutoDeny
  \/ AutoLoadedMetadata
  \/ AutoDetachedMetadata
  \/ Playing
  \/ AutoElapse
  \/ AutoElapseTied

AutoSpec == AutoInit /\ [][AutoNext]_vars

\* ------------------------------------------------------- either variant
\* one of the two variants is mounted and runs its own handlers
BothInit ==
  Fresh /\ variant \in {"main", "auto"} /\ twin = NoTwin /\ sound = Silent

BothNext ==
  \/ Start
  \/ Reset
  \/ Grant
  \/ Deny
  \/ LoadedMetadata
  \/ DetachedMetadata
  \/ Elapse
  \/ ElapseTied
  \/ AutoStart
  \/ AutoReset
  \/ AutoGrant
  \/ AutoDeny
  \/ AutoLoadedMetadata
  \/ AutoDetachedMetadata
  \/ AutoElapse
  \/ AutoElapseTied
  \/ Playing

BothSpec == BothInit /\ [][BothNext]_vars

\* ------------------------------------------------ one session, any frame
\* the largest side of the frames tried
MaxFrameSide == 3

\* every frame of at most that size with every position of the marked pixel
TestFrames ==
  {f \in {<<w, h, <<c, r>>>> : w \in 1..MaxFrameSide, h \in 1..MaxFrameSide,
                               c \in 0..(MaxFrameSide - 1),
                               r \in 0..(MaxFrameSide - 1)} :
     f[3][1] < f[1] /\ f[3][2] < f[2]}

\* the first press of the start button
FirstStart == nextReq = 1 /\ Start

AutoFirstStart == nextReq = 1 /\ AutoStart

\* the camera delivers any of the frames tried
FrameMetadata == LoadedMetadataOf(TestFrames)

AutoFrameMetadata == AutoLoadedMetadataOf(TestFrames)

FrameNext ==
  \/ FirstStart
  \/ Grant
  \/ Deny
  \/ FrameMetadata
  \/ Elapse
  \/ ElapseTied
  \/ AutoFirstStart
  \/ AutoGrant
  \/ AutoDeny
  \/ AutoFrameMetadata
  \/ AutoElapse
  \/ AutoElapseTied
  \/ Playing

FrameSpec == BothInit /\ [][FrameNext]_vars

\* ------------------------------------------------------------ properties
TypeOK ==
  /\ status \in Statuses
  /\ snapshot \in {Null, "frame", "blank"}
  /\ errorMessage \in {Null, "denied"}
  /\ scanningMessage \in 0..(NumScanningTexts - 1)
  /\ textIndex \in 0..(NumScanningTexts - 1)
  /\ matchConfidence \in 0..ConfidenceFinal
  /\ displayedFsaText \in 0..FsaTextLength
  /\ showFsaPopup \in BOOLEAN /\ isTyping \in BOOLEAN /\ scanLoop \in BOOLEAN
  /\ streamRef \in 0..MaxRequests
  /\ openStreams \subseteq 1..MaxRequests
  /\ nextReq \in 1..(MaxRequests + 1)
  /\ epoch \in Nat
  /\ retries \in 0..MaxRetries
  /\ cues \in Seq({"playSuccess", "playTagAppear", "playDataReveal",
                   "playPepAlert", "playRiskAlert", "popupShown", "popupHidden"})
  /\ detections \in Nat /\ captureCalls \in Nat /\ captures \in Nat
  /\ rotations \in Nat
  /\ loopCalls.start \in Nat /\ loopCalls.stop \in Nat
  /\ unmounted \in BOOLEAN
  /\ variant \in {"main", "auto"}
  /\ Len(artifact) <= 1
  /\ voice \in Seq(0..CountdownStart) /\ Len(voice) <= CountdownStart
  /\ (artifact = NoImage) <=> (snapshot = Null)
  /\ sound.manager \in Managers /\ sound.ctx \in BOOLEAN
  /\ sound.now \in 0..MaxAudioTime
  /\ sound.loop.handle \in {"none", "noop", "live"}
  /\ sound.loop.running \subseteq sound.loop.started
  /\ sound.loop.gain \in 0..AudioVolume

\* the state the component keeps: its useState values and the stream handle
ctrl ==
  <<status, snapshot, errorMessage, scanningMessage, detectionBox, countdown,
    showFsaPopup, displayedFsaText, isTyping, matchConfidence, streamRef>>

\* the camera stream is held open: the handle is set and its tracks run
StreamHeld == streamRef # 0 /\ streamRef \in openStreams

\* the step just taken was a handleReset that left a non-IDLE state
\* (as an action: epoch' # epoch)
AfterReset == last.op = "reset"

\* the eight timers of the SCAN_PASSED choreography
RevealTimers == SoundTimers \cup {"showPopup", "hidePopup", "finalize"}

\* the timers the effects arm while the status is st
OwnTimers(st) ==
  CASE st = "DETECTING"   -> {"poll", "dwell", "lock"}
    [] st = "CAPTURED"    -> {"captured"}
    [] st = "SCANNING"    -> {"scanEnd", "textInterval", "confidenceInterval"}
    [] st = "SCAN_PASSED" -> RevealTimers \cup {"typingInterval"}
    [] st = "FINALIZING"  -> {"finalizing"}
    [] st = "COUNTDOWN"   -> {"count"}
    [] st = "ONBOARDED"   -> {"onboarded"}
    [] OTHER              -> {}

\* C1: the camera stream is held open only while status is INITIALIZING or
\* DETECTING, and it is held open whenever status is DETECTING (in
\* INITIALIZING the stream exists from the grant on, so the time before the
\* grant is not held against the claim).
C1_StreamOpenIffAcquiring ==
  /\ StreamHeld => status \in {"INITIALIZING", "DETECTING"}
  /\ status = "DETECTING" => StreamHeld

\* C2: a reset from a non-IDLE state leaves errorMessage, snapshot and
\* detectionBox empty and status IDLE, and no step run by a timer or async
\* callback that was armed before the latest reset changes a controller
\* variable.
C2_ResetClearsAndSilences ==
  [][ /\ (epoch' # epoch) =>
           /\ status' = "IDLE"
           /\ snapshot' = Null /\ errorMessage' = Null /\ detectionBox' = NoBox
      /\ (last'.ep < epoch') => UNCHANGED ctrl ]_vars

\* C3: an armed timer of the SCAN_PASSED choreography exists only while status
\* is SCAN_PASSED and was armed after the latest reset: a reset during
\* SCAN_PASSED leaves none of the eight armed, so none fires afterwards.
C3_RevealSetCancelledTogether ==
  \A t \in timers :
    t.name \in RevealTimers => (status = "SCAN_PASSED" /\ t.ep = epoch)

\* C3 witness: a reset hit SCAN_PASSED after the first tag cue had fired and
\* while the popup timers and the FINALIZING timer were still armed.
C3_Witness ==
  /\ AfterReset /\ last.from = "SCAN_PASSED"
  /\ "ekycTag" \notin last.had
  /\ {"worldCheckTag", "showPopup", "hidePopup", "finalize"} \subseteq last.had

\* C4: in every state the only timers still able to act are those armed by
\* the current status (a timer whose detection cycle was deactivated counts
\* as cancelled).
C4_OnlyCurrentStateTimers ==
  \A t \in timers : t.active => t.name \in OwnTimers(status)

\* C5: a reset invoked while the camera stream is held stops the stream and
\* clears the handle.
C5_ResetReleasesCamera ==
  [][ (epoch' # epoch /\ StreamHeld) =>
        (streamRef' = 0 /\ streamRef \notin openStreams') ]_vars

\* C6: a camera request rejected while status is INITIALIZING leads to ERROR
\* with a non-empty errorMessage, no stream handle is stored then or while
\* the status stays ERROR, and no stream is stopped by the step or afterwards.
C6_DenialLeavesNoStream ==
  [][ /\ (last'.op = "deny" /\ status = "INITIALIZING") =>
           /\ status' = "ERROR" /\ errorMessage' # Null
           /\ streamRef = 0 /\ streamRef' = 0 /\ openStreams' = openStreams
      /\ (status = "ERROR" /\ status' = "ERROR") =>
           (streamRef' = 0 /\ openStreams' = openStreams) ]_vars

\* C7: COUNTDOWN is entered with the counter at 5, the counter changes only
\* by one decrement per expiry of the 1000 ms timer, and ONBOARDED is entered
\* from COUNTDOWN exactly when the counter reaches 0, after five decrements.
C7_FiveTicksThenOnboarded ==
  [][ /\ (status' = "COUNTDOWN" /\ status # "COUNTDOWN") =>
           countdown' = CountdownStart
      /\ (status' = "COUNTDOWN") =>
           /\ countdown' \in 1..CountdownStart
           /\ ticks' = CountdownStart - countdown'
      /\ (countdown' # countdown /\ status = "COUNTDOWN") =>
           (last'.op = "count" /\ countdown' = countdown - 1)
      /\ (status' = "ONBOARDED" /\ status # "ONBOARDED") =>
           (status = "COUNTDOWN" /\ countdown' = 0 /\ ticks' = CountdownStart)
    ]_vars

\* C7 witness: COUNTDOWN entered with the counter back at 5 in a session
\* that found the counter at 0 from the session before.
C7_Witness ==
  /\ status = "COUNTDOWN" /\ last.op = "finalizing" /\ last.cd = 0
  /\ countdown = CountdownStart /\ ticks = 0

\* C8: the countdown value is always in 0..5.
C8_CountdownInRange == countdown \in 0..CountdownStart

\* C8 witness: a restart after a reset, with the counter left at 0.
C8_Witness == status = "INITIALIZING" /\ countdown = 0 /\ epoch > 0

\* a mounted element bound to a live stream has yet to report its metadata
AwaitingMetadata ==
  /\ status = "INITIALIZING"
  /\ video.mounted /\ video.handler /\ ~video.meta
  /\ video.src \in openStreams

\* C9: after a start whose camera request was granted, the element reports
\* its metadata and status becomes DETECTING (unless the element is
\* unmounted first), and no ERROR lies between the start and DETECTING.
C9_StartReachesDetecting ==
  /\ [][ (last'.op \in {"metadata", "detachedMetadata"} /\ last'.ep = epoch') =>
           (status' = "DETECTING" /\ errorMessage' = Null) ]_vars
  /\ AwaitingMetadata ~> (status = "DETECTING" \/ ~video.mounted)

\* C9 witness: DETECTING entered from INITIALIZING by the metadata event of
\* the stream this session requested.
C9_Witness ==
  /\ status = "DETECTING" /\ last.op = "metadata"
  /\ last.from = "INITIALIZING" /\ last.ep = epoch /\ StreamHeld

\* the status changes of the timeline
Allowed ==
  {<<"IDLE", "INITIALIZING">>, <<"INITIALIZING", "DETECTING">>,
   <<"INITIALIZING", "ERROR">>, <<"DETECTING", "CAPTURED">>,
   <<"CAPTURED", "SCANNING">>, <<"SCANNING", "SCAN_PASSED">>,
   <<"SCAN_PASSED", "FINALIZING">>, <<"FINALIZING", "COUNTDOWN">>,
   <<"COUNTDOWN", "ONBOARDED">>, <<"ONBOARDED", "WELCOME">>}

\* C10: every status change is one of the changes of the timeline or a reset
\* to IDLE (the timeline is a chain, so no phase is skipped or entered twice
\* within a session).
C10_OnlyTimelineTransitions ==
  [][ status' # status =>
        \/ <<status, status'>> \in Allowed
        \/ (status' = "IDLE" /\ epoch' # epoch) ]_vars

\* C11: within one entry into DETECTING detection succeeds at most once, and
\* within one session (from the status leaving IDLE to its return to IDLE)
\* captureSnapshot is invoked at most once and the snapshot is written at
\* most once, however many poll retries the detection cycle made.
C11_CaptureAtMostOnce ==
  /\ detections <= 1
  /\ captureCalls <= 1
  /\ captures <= captureCalls

\* C11 witness: the capture of a detection cycle that retried its poll
\* MaxRetries times or more before the frame became available.
C11_Witness ==
  /\ status = "CAPTURED" /\ last.op = "lock" /\ last.from = "DETECTING"
  /\ retries = MaxRetries /\ detections = 1 /\ captures = 1
  /\ snapshot = "frame"

\* the states that show the captured frame
HoldingSnapshot ==
  {"CAPTURED", "SCANNING", "SCAN_PASSED", "FINALIZING", "COUNTDOWN",
   "ONBOARDED", "WELCOME"}

\* C12: the snapshot is non-empty exactly when status is one of CAPTURED,
\* SCANNING, SCAN_PASSED, FINALIZING, COUNTDOWN, ONBOARDED and WELCOME; it is
\* empty in IDLE, INITIALIZING, DETECTING and ERROR.
C12_SnapshotIffCaptured ==
  /\ status \in HoldingSnapshot => snapshot # Null
  /\ status \in {"IDLE", "INITIALIZING", "DETECTING", "ERROR"} => snapshot = Null

\* C13: once status is ERROR it changes only by a reset, which sets IDLE; no
\* camera request is issued while status is ERROR or by the reset step.
C13_ErrorStaysUntilReset ==
  [][ /\ (status = "ERROR" /\ status' # "ERROR") =>
           (epoch' # epoch /\ status' = "IDLE")
      /\ (status = "ERROR" \/ epoch' # epoch) =>
           (nextReq' = nextReq /\ pending' \subseteq pending) ]_vars

\* C14: ERROR is entered only from INITIALIZING and only by the rejection of
\* a camera request; a poll of DETECTING that finds no live frame only arms
\* the next poll and leaves the status DETECTING.
C14_ErrorOnlyFromInitializing ==
  [][ /\ (status' = "ERROR" /\ status # "ERROR") =>
           (status = "INITIALIZING" /\ last'.op = "deny")
      /\ (last'.op = "poll" /\ status = "DETECTING") =>
           status' = "DETECTING" ]_vars

\* C15: every start() sets status to INITIALIZING and issues exactly one
\* camera request, and no other step issues one: the request is issued on
\* entry to INITIALIZING and not again while the status stays INITIALIZING.
C15_OneRequestPerStart ==
  [][ /\ (last'.op = "start") =>
           /\ status' = "INITIALIZING"
           /\ nextReq' = nextReq + 1
           /\ pending' = pending \cup {[id |-> nextReq, ep |-> epoch]}
      /\ (last'.op # "start") =>
           (nextReq' = nextReq /\ pending' \subseteq pending) ]_vars

\* C15 witness: the request of this session was granted while another step
\* kept the status INITIALIZING, and it is the only request issued since
\* the start.
C15_Witness ==
  /\ status = "INITIALIZING" /\ last.op = "grant" /\ last.ep = epoch
  /\ last.from = "INITIALIZING" /\ streamRef = nextReq - 1 /\ pending = {}

\* C16: WELCOME arms no timer, and once status is WELCOME it changes only by
\* a reset, which sets IDLE.
C16_WelcomeStaysUntilReset ==
  [][ /\ (status' = "WELCOME" /\ status # "WELCOME") =>
           (\A t \in timers' : t.ep = epoch' => ~t.active)
      /\ (status = "WELCOME" /\ status' # "WELCOME") =>
           (epoch' # epoch /\ status' = "IDLE") ]_vars

\* C17: in the auto-reset variant WELCOME always has its 10000 ms timer armed,
\* and the step in which that timer expires is a reset: it leaves status
\* IDLE, snapshot, detectionBox and errorMessage empty and no timer armed.
C17_WelcomeAutoResets ==
  [][ /\ (status' = "WELCOME") =>
           (\E t \in timers' : t.name = "welcome" /\ t.rem <= AutoWelcomeMs)
      /\ (status' = "WELCOME" /\ status # "WELCOME") =>
           (\E t \in timers' : t.name = "welcome" /\ t.rem = AutoWelcomeMs)
      /\ (last'.op = "welcome") =>
           /\ status = "WELCOME" /\ status' = "IDLE"
           /\ snapshot' = Null /\ detectionBox' = NoBox /\ errorMessage' = Null
           /\ timers' = {} ]_vars

\* C17 witness: the WELCOME timer, armed in the session that has just ended,
\* has expired and left the idle screen with nothing of the session on it.
C17_Witness ==
  /\ last.op = "welcome" /\ last.from = "WELCOME" /\ last.ep + 1 = epoch
  /\ status = "IDLE" /\ snapshot = Null /\ detectionBox = NoBox
  /\ errorMessage = Null /\ timers = {}

\* the events of the SCAN_PASSED phase in the order of their offsets
Choreography ==
  <<"playSuccess", "playTagAppear", "playTagAppear", "playDataReveal",
    "playPepAlert", "playRiskAlert", "popupShown", "popupHidden">>

\* C18: the offsets of the SCAN_PASSED events are strictly increasing; while
\* the phase lasts the events that have happened are an initial part of the
\* choreography, starting with the success cue at entry; and when the phase
\* timer moves the status to FINALIZING every event has happened exactly
\* once, in order, and the popup is hidden.
C18_ChoreographyInOrder ==
  [][ /\ 0 < EkycTagMs /\ EkycTagMs < WorldCheckTagMs
      /\ WorldCheckTagMs < NameRevealMs /\ NameRevealMs < PepTagMs
      /\ PepTagMs < RiskTextMs /\ RiskTextMs < ShowPopupMs
      /\ ShowPopupMs < HidePopupMs /\ HidePopupMs < FinalizeMs
      /\ (status' = "SCAN_PASSED") =>
           /\ Len(cues') \in 1..Len(Choreography)
           /\ cues' = SubSeq(Choreography, 1, Len(cues'))
      /\ (status' = "SCAN_PASSED" /\ status # "SCAN_PASSED") =>
           cues' = <<"playSuccess">>
      /\ (status = "SCAN_PASSED" /\ status' = "FINALIZING") =>
           /\ last'.op = "finalize"
           /\ cues = Choreography
           /\ ~showFsaPopup /\ ~showFsaPopup' ]_vars

\* C18 witness: FINALIZING entered by the phase timer of a SCAN_PASSED phase
\* that ran its 26000 ms.
C18_Witness ==
  /\ status = "FINALIZING" /\ last.op = "finalize" /\ last.from = "SCAN_PASSED"
  /\ last.ep = epoch /\ ~showFsaPopup

\* the typing interval is armed
Typing == \E t \in timers : t.name = "typingInterval"

\* the part of C19 that does not depend on the first tick: the full text is
\* shown and the typing flag cleared before the popup timer hides the popup,
\* and once the popup is hidden (by its timer or by a reset) the displayed
\* text is empty, the typing flag is false and no typing tick is armed.
TypingEndsAndClears ==
  /\ displayedFsaText' \in 0..FsaTextLength
  /\ (last'.op = "typingInterval" /\ showFsaPopup') => isTyping
  /\ (last'.op = "hidePopup" /\ showFsaPopup) =>
       (displayedFsaText = FsaTextLength /\ ~isTyping /\ ~Typing)
  /\ (~showFsaPopup') =>
       (displayedFsaText' = 0 /\ ~isTyping' /\ ~Typing')
  /\ (last'.op = "typingInterval") => showFsaPopup

\* C19 as stated: while the popup is shown every 15 ms tick makes the
\* displayed prefix one character longer, the full text is reached and the
\* typing flag cleared before the popup auto-hides, and after the popup is
\* hidden the text is empty, the flag false and no typing tick fires.
C19_TypingGrowsEveryTick ==
  [][ /\ TypingEndsAndClears
      /\ (last'.op = "typingInterval" /\ showFsaPopup') =>
           displayedFsaText' = displayedFsaText + 1 ]_vars

\* C19 amended: the n-th tick displays the first n - 1 characters, so the
\* first tick displays the empty prefix and every later tick makes the
\* displayed prefix one character longer; the rest as stated.
C19_TypingGrowsAfterFirstTick ==
  [][ /\ TypingEndsAndClears
      /\ (last'.op = "typingInterval" /\ showFsaPopup') =>
           /\ displayedFsaText' = typingIndex
           /\ typingIndex = 0 => displayedFsaText' = displayedFsaText
           /\ typingIndex > 0 => displayedFsaText' = displayedFsaText + 1
           /\ isTyping' = (typingIndex < FsaTextLength) ]_vars

\* C19 witness: the last tick has shown the full text and cleared the typing
\* flag while the popup is still shown.
C19_Witness ==
  /\ showFsaPopup /\ last.op = "typingInterval"
  /\ displayedFsaText = FsaTextLength /\ ~isTyping /\ ~Typing

\* the states after the SCANNING phase
AfterScanning ==
  {"SCAN_PASSED", "FINALIZING", "COUNTDOWN", "ONBOARDED", "WELCOME"}

\* C20: when the SCANNING phase ends the confidence value is exactly 100 and
\* it stays 100 through SCAN_PASSED, FINALIZING, COUNTDOWN, ONBOARDED and
\* WELCOME, whichever of the phase timer and a confidence tick due at the
\* same instant runs first.
C20_ConfidenceFinalAfterScan ==
  status \in AfterScanning => matchConfidence = ConfidenceFinal

\* C21: on entry to SCANNING the confidence value is 0; while the status stays
\* SCANNING it changes only in a tick of the 80 ms interval and then by +1 (a
\* tick at the ceiling leaves it), so it never decreases; and it never
\* exceeds 99 while the status is SCANNING.
C21_ConfidenceClimbsInScanning ==
  [][ /\ (status' = "SCANNING" /\ status # "SCANNING") => matchConfidence' = 0
      /\ (status' = "SCANNING") => matchConfidence' \in 0..ConfidenceCeiling
      /\ (status = "SCANNING" /\ status' = "SCANNING"
            /\ matchConfidence' # matchConfidence) =>
           (last'.op = "confidenceInterval" /\ matchConfidence' = matchConfidence + 1)
      /\ (status = "SCANNING" /\ status' = "SCANNING"
            /\ last'.op = "confidenceInterval") =>
           matchConfidence' = IF matchConfidence >= ConfidenceCeiling
                              THEN ConfidenceCeiling ELSE matchConfidence + 1
    ]_vars

\* C21 witness: a tick of the interval found the value at the ceiling and
\* left it there, the status still SCANNING.
C21_Witness ==
  /\ status = "SCANNING" /\ last.op = "confidenceInterval"
  /\ last.from = "SCANNING" /\ matchConfidence = ConfidenceCeiling
  /\ \E t \in timers : t.name = "scanEnd" /\ t.rem = 0

\* C22: the ambience loop plays exactly while the mounted component's status
\* is SCANNING; the step that enters SCANNING calls playScanLoop once, the
\* step that leaves it (phase end, reset, another status, unmount) calls the
\* stop handle once, and no other step calls either.
C22_ScanLoopExactlyInScanning ==
  [][ /\ scanLoop' <=> (status' = "SCANNING" /\ ~unmounted')
      /\ (scanLoop' /\ ~scanLoop) =>
           /\ loopCalls'.start = (IF status = "IDLE" THEN 0 ELSE loopCalls.start) + 1
           /\ loopCalls'.stop = loopCalls'.start - 1
      /\ (scanLoop /\ ~scanLoop') =>
           /\ loopCalls'.start = loopCalls.start
           /\ loopCalls'.stop = loopCalls.stop + 1
           /\ loopCalls'.stop = loopCalls'.start
      /\ (scanLoop' = scanLoop) =>
           \/ loopCalls' = loopCalls
           \/ (status = "IDLE" /\ loopCalls' = NoCalls) ]_vars

\* C22 witness: the component was unmounted while SCANNING and the loop was
\* stopped by the cleanup.
C22_Witness ==
  /\ unmounted /\ last.op = "unmount" /\ last.from = "SCANNING"
  /\ ~scanLoop /\ loopCalls = [start |-> 1, stop |-> 1]

\* the number of entries of SCANNING_TEXTS in the variant that is running
NumTexts ==
  IF variant = "main" THEN NumScanningTexts ELSE AutoNumScanningTexts

\* C23: the step that enters SCANNING shows entry 0 of the list; while the
\* status stays SCANNING the message changes only in a rotation tick, which
\* moves it to the next entry and from the last entry to entry 0; so after k
\* ticks of the phase the message is entry k mod N.  Either variant.
C23_MessageRotates ==
  [][ /\ (status' = "SCANNING" /\ status # "SCANNING") =>
           (scanningMessage' = 0 /\ rotations' = 0)
      /\ (status' = "SCANNING") => scanningMessage' = rotations' % NumTexts
      /\ (status = "SCANNING" /\ status' = "SCANNING") =>
           IF last'.op = "textInterval"
           THEN /\ rotations' = rotations + 1
                /\ scanningMessage' = (scanningMessage + 1) % NumTexts
           ELSE /\ rotations' = rotations
                /\ scanningMessage' = scanningMessage ]_vars

\* C23 witness: the tick after the last entry has wrapped to entry 0.
C23_Witness ==
  /\ status = "SCANNING" /\ last.op = "textInterval" /\ last.from = "SCANNING"
  /\ rotations = NumTexts /\ scanningMessage = 0

\* the share of the frame width and of the frame height a detection region
\* takes, as <<numerator, denominator>>: 0.3 and 0.4, or 0.25 and 0.25
WidthShare  == IF variant = "main" THEN <<3, 10>> ELSE <<1, 4>>
HeightShare == IF variant = "main" THEN <<4, 10>> ELSE <<1, 4>>

\* C24: whenever a detection region is set for a video of W x H pixels, its
\* width is 0.3 W and its height 0.4 H (0.25 W and 0.25 H in part_003), and
\* x = (W - width) / 2, y = (H - height) / 2: the region is centered.
C24_RegionCentered ==
  [][ (detectionBox' # NoBox /\ detectionBox' # detectionBox) =>
        LET b == detectionBox'[1]
            W == video.videoWidth * Unit
            H == video.videoHeight * Unit
        IN  /\ b.width * WidthShare[2] = W * WidthShare[1]
            /\ b.height * HeightShare[2] = H * HeightShare[1]
            /\ 2 * b.x = W - b.width
            /\ 2 * b.y = H - b.height
            /\ b.x + b.width + b.x = W
            /\ b.y + b.height + b.y = H ]_vars

\* C24 witness: the region computed for a frame of 3 x 2 pixels in the main
\* variant: 0.9 x 0.8 pixels at (1.05, 0.6).
C24_Witness ==
  /\ variant = "main" /\ status = "DETECTING" /\ last.op = "dwell"
  /\ video.videoWidth = 3 /\ video.videoHeight = 2
  /\ detectionBox = <<[x |-> 42, y |-> 24, width |-> 36, height |-> 32]>>

\* C25: the image captureSnapshot stores has the size of the video frame and
\* is its horizontal mirror image: the pixel of column c and row r of the
\* frame is at column W - 1 - c and row r of the stored image, for a frame
\* of width W (the marked pixel stands for any pixel of the frame).
C25_SnapshotMirrored ==
  [][ (artifact' # NoImage /\ artifact' # artifact) =>
        LET a == artifact'[1]
            W == video.videoWidth
            H == video.videoHeight
        IN  /\ snapshot' # Null
            /\ a.width = W /\ a.height = H
            /\ (W > 0 /\ H > 0) =>
                  a.mark = <<W - 1 - video.mark[1], video.mark[2]>> ]_vars

\* C25 witness: a frame of 3 x 2 pixels was captured and the pixel of its
\* column 0, row 1 is stored at column 2, row 1.
C25_Witness ==
  /\ status = "CAPTURED" /\ last.op = "lock" /\ snapshot = "frame"
  /\ artifact = <<[width |-> 3, height |-> 2, mark |-> <<2, 1>>]>>

\* the detection region is set and the status is DETECTING
RegionSet == status = "DETECTING" /\ detectionBox # NoBox

\* DETECTING with the detection deactivated (no poll or detection timer is
\* active), no capture pending and the camera stream held
StuckDetecting ==
  /\ status = "DETECTING" /\ StreamHeld
  /\ \A t \in timers : t.name \in {"poll", "dwell"} => ~t.active
  /\ \A t \in timers : t.name # "lock"

\* C26: once the detection region is set in DETECTING the status becomes
\* CAPTURED with the camera released, and the component is never left in
\* DETECTING with the detection deactivated, no capture pending and the
\* stream held, also when canvas.getContext('2d') yields no context.
C26_RegionLeadsToCapture ==
  /\ [](RegionSet => ~StuckDetecting)
  /\ RegionSet ~> (status = "CAPTURED" /\ ~StreamHeld)

\* C27: once the component is unmounted no camera stream is open, whenever
\* the unmount falls relative to the answer to a camera request.
C27_NoStreamAfterUnmount == unmounted => openStreams = {}

\* C28: at most one camera stream is open and it is the one the handle
\* refers to (so that it can still be stopped, and is stopped once, since
\* stopCamera clears the handle); the handle is never set to another stream
\* while the stream it refers to is unstopped.
C28_SingleStreamOwner ==
  /\ [](/\ Cardinality(openStreams) <= 1
        /\ openStreams \subseteq {streamRef}
        /\ streamRef # 0 => streamRef \in openStreams)
  /\ [][ (streamRef' # streamRef /\ streamRef' # 0) => ~StreamHeld ]_vars

\* C29: the disclosure popup is shown only while the status is SCAN_PASSED,
\* whether SCAN_PASSED was left by its final timer or by a reset.
C29_PopupOnlyInScanPassed == showFsaPopup => status = "SCAN_PASSED"

\* C30: the status is never SUCCESS, in either variant, whatever the order
\* of starts, camera grants and denials, timer expiries and resets.
C30_SuccessUnreachable == status # "SUCCESS"

\* C30 witness: a session that followed a reset has run through every phase
\* to the end of the timeline, which is WELCOME.
C30_Witness ==
  /\ status = "WELCOME" /\ last.op = "onboarded" /\ last.from = "ONBOARDED"
  /\ epoch > 0 /\ snapshot # Null

C32_ErrorMessageIffError == (errorMessage # Null) <=> (status = "ERROR")

\* C33: the detection region is empty in IDLE, INITIALIZING and ERROR; a
\* reset empties it and it stays empty until a detection succeeds; and
\* whenever there is a snapshot there is a detection region (no capture
\* without a detection in the same session).
C33_RegionBetweenDetectionAndReset ==
  /\ [](status \in {"IDLE", "INITIALIZING", "ERROR"} => detectionBox = NoBox)
  /\ [](snapshot # Null => detectionBox # NoBox)
  /\ [][ /\ epoch' # epoch => detectionBox' = NoBox
         /\ (detectionBox = NoBox /\ detectionBox' # NoBox) =>
              (last'.op = "dwell" /\ detections' = detections + 1) ]_vars

GainAt(r, n) ==
  IF n >= r.t1 THEN r.v1
  ELSE IF n <= r.t0 THEN r.v0
  ELSE r.v0 + ((r.v1 - r.v0) * (n - r.t0)) \div (r.t1 - r.t0)

\* playScanLoop of SoundEffects.ts (lines 122-170) and, word for word, of
\* part_002 (lines 121-169): without an AudioContext it returns an empty
\* handle; otherwise it starts carrier, modulator and pan oscillator and
\* fades the gain in from 0
playScanLoop(s) ==
  IF ~s.ctx
  THEN [s EXCEPT !.loop = [NoLoop EXCEPT !.handle = "noop"]]
  ELSE [s EXCEPT !.loop =
          [NoLoop EXCEPT !.handle = "live",
                         !.started = Oscillators,
                         !.running = Oscillators,
                         !.gain = 0,
                         !.ramp = [t0 |-> s.now, v0 |-> 0,
                                   t1 |-> s.now + FadeInTenths,
                                   v1 |-> FadeInLevel]]]

\* playScanLoop of part_001 (lines 168-174): it plays an audio element at a
\* fixed volume, whether or not there is an AudioContext (ok: play() is not
\* rejected)
playScanLoopFile(s, ok) ==
  [s EXCEPT !.loop =
     [NoLoop EXCEPT !.handle = "live",
                    !.started = IF ok THEN {"audio"} ELSE {},
                    !.running = IF ok THEN {"audio"} ELSE {},
                    !.gain = AudioVolume,
                    !.ramp = [t0 |-> s.now, v0 |-> AudioVolume,
                              t1 |-> s.now, v1 |-> AudioVolume]]]

\* the function playScanLoop of SoundEffects.ts (lines 171-180) and of
\* part_002 (lines 170-179) returned: the automation is cancelled, the gain
\* is held at its present value and ramped to 0, and the oscillators that
\* still run are scheduled to stop at the end of the ramp (a later stop()
\* replaces an earlier one)
stopHandle(s) ==
  IF s.loop.handle = "noop"
  THEN s
  ELSE [s EXCEPT !.loop.ramp = [t0 |-> s.now, v0 |-> s.loop.gain,
                                t1 |-> s.now + FadeOutTenths, v1 |-> 0],
                 !.loop.stopAt = IF s.loop.running # {}
                                 THEN s.now + FadeOutTenths ELSE @,
                 !.loop.stopped = TRUE,
                 !.loop.stopT = s.now]

\* the function playScanLoop of part_001 returned (lines 176-179): the audio
\* element is paused; its volume is left as it is
stopHandleFile(s) ==
  [s EXCEPT !.loop.running = {}, !.loop.stopped = TRUE, !.loop.stopT = s.now]

\* playScanLoop and its handle, of the manager that was constructed
playScanLoopOf(s, ok) ==
  IF s.manager = "part_001" THEN playScanLoopFile(s, ok) ELSE playScanLoop(s)

stopHandleOf(s) ==
  IF s.manager = "part_001" THEN stopHandleFile(s) ELSE stopHandle(s)

\* a tenth of a second passes on the audio clock: the gain follows its ramp
\* and the sources whose stop time has come stop
audioTick(s) ==
  LET n == s.now + 1 IN
  [s EXCEPT !.now = n,
            !.loop.gain = IF s.loop.handle = "live"
                          THEN GainAt(s.loop.ramp, n) ELSE @,
            !.loop.running = IF s.loop.stopAt # -1 /\ n >= s.loop.stopAt
                             THEN {} ELSE @]

\* the manager becomes s; the scanner is not involved
Sounds(s) == sound' = s /\ Assigned(Cur) /\ twin' = twin

PlayScanLoop ==
  /\ sound.loop.handle = "none"
  /\ \E ok \in BOOLEAN : Sounds(playScanLoopOf(sound, ok))

StopLoop ==
  /\ sound.loop.handle # "none"
  /\ Sounds(stopHandleOf(sound))

AudioTick ==
  /\ sound.now < MaxAudioTime
  /\ Sounds(audioTick(sound))

\* any of the three managers, with or without an AudioContext
SoundInit ==
  /\ Fresh /\ variant = "main" /\ twin = NoTwin
  /\ sound \in {Manager(m, ctx) : m \in Managers, ctx \in BOOLEAN}

SoundNext == PlayScanLoop \/ StopLoop \/ AudioTick

SoundSpec == SoundInit /\ [][SoundNext]_vars

\* the numbers spoken from the start of a countdown down to the value c
Spoken(c) == [i \in 1..(CountdownStart - c + 1) |-> CountdownStart + 1 - i]

\* C35: in the scanner with the voice cue, while the status is COUNTDOWN the
\* numbers spoken so far are 5 down to the value displayed, each once and in
\* that order; when the countdown has ended (ONBOARDED) they are exactly
\* 5, 4, 3, 2, 1; and 0 is never spoken.
C35_CountdownSpokenFiveToOne ==
  variant = "main" =>
    /\ status = "COUNTDOWN" =>
         (countdown \in 1..CountdownStart /\ voice = Spoken(countdown))
    /\ status = "ONBOARDED" => voice = <<5, 4, 3, 2, 1>>
    /\ \A i \in 1..Len(voice) : voice[i] # 0

\* C35 witness: the last tick of a countdown has run and the phase has ended
\* with the five numbers spoken.
C35_Witness ==
  /\ variant = "main" /\ status = "ONBOARDED" /\ last.op = "count"
  /\ countdown = 0 /\ voice = <<5, 4, 3, 2, 1>>

\* once the stop handle of a loop has been invoked, a source the loop started
\* is silent only when the gain has reached 0, and FadeOutTenths after the
\* (latest) invocation the gain is 0 and no source runs
FadesThenStops(l, now) ==
  (l.handle = "live" /\ l.stopped) =>
    /\ l.running # l.started => l.gain = 0
    /\ now >= l.stopT + FadeOutTenths => (l.gain = 0 /\ l.running = {})

\* C36: for every SoundEffects manager of the repository, the stop handle
\* of playScanLoop does not cut the sound: the sources the loop started keep
\* running while the gain fades, they stop only when the gain is 0, and
\* after the fade none is running.
C36_StopHandleFadesThenStops == FadesThenStops(sound.loop, sound.now)

\* the same for the two managers that synthesise the loop (SoundEffects.ts
\* and part_002)
SynthLoopFadesThenStops ==
  sound.manager # "part_001" => FadesThenStops(sound.loop, sound.now)

\* the handle of a synthesised loop was invoked in mid fade-in and the fade
\* out has ended: gain 0, nothing running
SynthLoopFadedOut ==
  /\ sound.manager = "SoundEffects.ts" /\ sound.loop.stopped
  /\ sound.loop.stopT = 4 /\ sound.now = sound.loop.stopT + FadeOutTenths
  /\ sound.loop.started = Oscillators /\ sound.loop.running = {}
  /\ sound.loop.gain = 0

====
